---- MODULE Spec2Model ----
(***************************************************************************)
(* web3_audit_scope_planner (src/app.py): a command-line run               *)
(*   parse_args -> compute_audit_plan -> print (JSON or human readable).   *)
(*                                                                         *)
(* compute_audit_plan works on Python floats, i.e. IEEE-754 binary64.      *)
(* The model keeps that arithmetic: a float is a record [e, m] standing    *)
(* for m * 2^e with a 53 bit mantissa m, every product and sum is rounded  *)
(* to nearest-even, a decimal literal is the nearest double of the decimal *)
(* it spells, and round(x, 1) is the nearest double of the correctly       *)
(* rounded (half-even) one-decimal value of x.  A mantissa does not fit    *)
(* TLC's 32 bit integers, so it is kept as limbs of LimbBits bits, least   *)
(* significant limb first.                                                 *)
(***************************************************************************)
EXTENDS Integers, Sequences, FiniteSets, TLC

(***************************************************************************)
(* Bounds of the model.                                                    *)
(***************************************************************************)
\* compute_audit_plan is called with the team sizes -NegTeamSizes..MaxTeamSize
NegTeamSizes == 1
MaxTeamSize == 9

(***************************************************************************)
(* Natural numbers of arbitrary width ("wide"): sequences of limbs,        *)
(* W[1] the least significant.                                             *)
(***************************************************************************)
LimbBits == 14
MantBits == 53

Pow2 == [i \in 0..LimbBits |-> 2^i]

B == Pow2[LimbBits]

Limb(W, i) == IF i >= 0 /\ i < Len(W) THEN W[i + 1] ELSE 0

IsZeroW(W) == \A i \in 1..Len(W) : W[i] = 0

\* number of bits of a limb value
LimbLen(x) == IF x = 0 THEN 0 ELSE CHOOSE n \in 1..LimbBits : Pow2[n - 1] <= x /\ x < Pow2[n]

\* index (from 0) of the most significant non-zero limb of a non-zero wide
TopLimb(W) == CHOOSE i \in 0..(Len(W) - 1) :
                     W[i + 1] # 0 /\ \A j \in (i + 1)..(Len(W) - 1) : W[j + 1] = 0

BitLenFrom(W, t) == t * LimbBits + LimbLen(W[t + 1])

BitLen(W) == IF IsZeroW(W) THEN 0 ELSE BitLenFrom(W, TopLimb(W))

\* bit i of W
BitOf(W, i) == (Limb(W, i \div LimbBits) \div Pow2[i % LimbBits]) % 2

\* all bits of W below bit n are zero
LowZero(W, n) ==
    /\ \A j \in 0..((n \div LimbBits) - 1) : Limb(W, j) = 0
    /\ Limb(W, n \div LimbBits) % Pow2[n % LimbBits] = 0

RECURSIVE ShiftRightFrom(_, _, _, _, _)
\* the limbs j..n of floor(W / 2^(q * LimbBits + r))
ShiftRightFrom(W, q, r, j, n) ==
    IF j > n THEN <<>>
    ELSE <<(Limb(W, q + j - 1) \div Pow2[r])
           + (Limb(W, q + j) % Pow2[r]) * Pow2[LimbBits - r]>>
         \o ShiftRightFrom(W, q, r, j + 1, n)

\* floor(W / 2^s) as a wide of n limbs
ShiftRight(W, s, n) == ShiftRightFrom(W, s \div LimbBits, s % LimbBits, 1, n)

RECURSIVE ShiftLeftFrom(_, _, _, _, _)
\* the limbs j..n of W * 2^(q * LimbBits + r)
ShiftLeftFrom(W, q, r, j, n) ==
    IF j > n THEN <<>>
    ELSE <<(Limb(W, j - 1 - q) % Pow2[LimbBits - r]) * Pow2[r]
           + (Limb(W, j - 2 - q) \div Pow2[LimbBits - r])>>
         \o ShiftLeftFrom(W, q, r, j + 1, n)

\* W * 2^s as a wide of n limbs (the caller leaves room)
ShiftLeft(W, s, n) == ShiftLeftFrom(W, s \div LimbBits, s % LimbBits, 1, n)

RECURSIVE AddCarry(_, _, _, _, _)
\* X + Y + c, limb by limb from limb i, as a wide of n limbs
AddCarry(X, Y, i, c, n) ==
    IF i >= n THEN <<>>
    ELSE LET s == Limb(X, i) + Limb(Y, i) + c
         IN <<s % B>> \o AddCarry(X, Y, i + 1, s \div B, n)

AddW(X, Y, n) == AddCarry(X, Y, 0, 0, n)

\* column k of the schoolbook product
MulColumn(X, Y, k) ==
    LET Term(i) == Limb(X, i) * Limb(Y, k - i)
    IN Term(0) + Term(1) + Term(2) + Term(3)

RECURSIVE MulCarry(_, _, _, _, _)
MulCarry(X, Y, k, c, n) ==
    IF k >= n THEN <<>>
    ELSE LET s == MulColumn(X, Y, k) + c
         IN <<s % B>> \o MulCarry(X, Y, k + 1, s \div B, n)

\* X * Y for X, Y of at most 4 limbs, as a wide of 8 limbs
MulW(X, Y) == MulCarry(X, Y, 0, 0, 8)

\* X * c for a small c (c < 2^16), as a wide of n limbs
RECURSIVE MulSmallCarry(_, _, _, _, _)
MulSmallCarry(X, c, i, carry, n) ==
    IF i >= n THEN <<>>
    ELSE LET s == Limb(X, i) * c + carry
         IN <<s % B>> \o MulSmallCarry(X, c, i + 1, s \div B, n)

MulSmall(X, c, n) == MulSmallCarry(X, c, 0, 0, n)

RECURSIVE DivSmallStep(_, _, _, _)
\* long division of W by a small d (d < 2^16) from limb i downwards;
\* the result is <<remainder>> \o quotient limbs, least significant first
DivSmallStep(W, d, i, r) ==
    IF i < 0 THEN <<r>>
    ELSE LET cur == r * B + Limb(W, i)
         IN Append(DivSmallStep(W, d, i - 1, cur % d), cur \div d)

\* value of a wide known to be small
SmallValue(W) == Limb(W, 0) + B * Limb(W, 1)

\* lexicographic comparison of two wides of the same length
LessW(X, Y) ==
    \E i \in 1..Len(X) :
        /\ X[i] < Y[i]
        /\ \A j \in (i + 1)..Len(X) : X[j] = Y[j]

(***************************************************************************)
(* binary64.  [e, m]: the value m * 2^e, m a wide of 4 limbs with exactly  *)
(* MantBits bits, or zero.  Only the non-negative, normal range occurs.    *)
(***************************************************************************)
ZeroW == <<0, 0, 0, 0>>

FZero == [e |-> 0, m |-> ZeroW]

\* q (+ 1 when up) at exponent e, renormalised when the carry makes 2^MantBits
RoundCarry(q1, e) ==
    IF Limb(q1, 3) >= Pow2[MantBits - 3 * LimbBits]
    THEN [e |-> e + 1, m |-> ShiftRight(q1, 1, 4)]
    ELSE [e |-> e, m |-> SubSeq(q1, 1, 4)]

\* half: the first bit cut off is set; rest: some later bit is
RoundNearestEven(q, e, half, rest) ==
    RoundCarry(IF half /\ (rest \/ q[1] % 2 = 1) THEN AddW(q, <<1>>, 5) ELSE q \o <<0>>, e)

RoundBits(W, e, sticky, L) ==
    IF L = 0 THEN FZero
    ELSE IF L <= MantBits
    THEN [e |-> e - (MantBits - L), m |-> ShiftLeft(W, MantBits - L, 4)]
    ELSE RoundNearestEven(ShiftRight(W, L - MantBits, 4), e + (L - MantBits),
                          BitOf(W, L - MantBits - 1) = 1,
                          sticky \/ ~LowZero(W, L - MantBits - 1))

\* nearest-even rounding of W * 2^e (plus a non-zero fraction below the last
\* bit of W when sticky) to MantBits bits
RoundToDouble(W, e, sticky) == RoundBits(W, e, sticky, BitLen(W))

FMul(x, y) ==
    IF IsZeroW(x.m) \/ IsZeroW(y.m) THEN FZero
    ELSE RoundToDouble(MulW(x.m, y.m), x.e + y.e, FALSE)

\* hi + lo for hi.e >= lo.e
FAddOrdered(hi, lo) ==
    IF hi.e - lo.e > MantBits + 2 THEN hi
    ELSE RoundToDouble(AddW(ShiftLeft(hi.m, hi.e - lo.e, 9), lo.m, 9), lo.e, FALSE)

FAdd(x, y) ==
    IF IsZeroW(x.m) THEN y
    ELSE IF IsZeroW(y.m) THEN x
    ELSE IF x.e >= y.e THEN FAddOrdered(x, y) ELSE FAddOrdered(y, x)

FLess(x, y) ==
    IF IsZeroW(x.m) THEN ~IsZeroW(y.m)
    ELSE IF IsZeroW(y.m) THEN FALSE
    ELSE x.e < y.e \/ (x.e = y.e /\ LessW(x.m, y.m))

\* the double nearest to n / d, for 0 <= n < 2^14 and 0 < d < 2^16: what
\* Python makes of a decimal literal such as 1.15 (n = 115, d = 100)
FromQuotient(qr) == RoundToDouble(Tail(qr), -(7 * LimbBits), Head(qr) # 0)

FromRatio(n, d) == FromQuotient(DivSmallStep(<<0, 0, 0, 0, 0, 0, 0, n>>, d, 7, 0))

\* round(x, 1) of Python: the exact value of x rounded half-even to one
\* decimal, K / 10, and then the double nearest to K / 10
TenthsOf(W, s) ==
    SmallValue(ShiftRight(W, s, 2))
    + (IF BitOf(W, s - 1) = 1 /\ (~LowZero(W, s - 1) \/ BitOf(W, s) = 1) THEN 1 ELSE 0)

\* K for a positive x below 2^MantBits
Tenths(x) == TenthsOf(MulSmall(x.m, 10, 5), -x.e)

Round1(x) == IF IsZeroW(x.m) \/ x.e >= 0 THEN x ELSE FromRatio(Tenths(x), 10)

(***************************************************************************)
(* The float literals of the source.                                       *)
(***************************************************************************)
F0_7 == FromRatio(7, 10)
F0_9 == FromRatio(9, 10)
F1_0 == FromRatio(10, 10)
F1_1 == FromRatio(11, 10)
F1_10 == FromRatio(110, 100)
F1_15 == FromRatio(115, 100)
F1_2 == FromRatio(12, 10)
F1_20 == FromRatio(120, 100)
F1_25 == FromRatio(125, 100)
F1_4 == FromRatio(14, 10)
F1_5 == FromRatio(15, 10)
F1_6 == FromRatio(16, 10)

(***************************************************************************)
(* The catalogs.                                                           *)
(***************************************************************************)
\* the keys of TRACKS in insertion order, the order of TRACKS.items()
TrackKeys == <<"protocol", "circuits", "implementation", "infra", "governance">>

KeySet == {TrackKeys[i] : i \in 1..Len(TrackKeys)}

KeyIndex(k) == CHOOSE i \in 1..Len(TrackKeys) : TrackKeys[i] = k

TRACKS ==
    [protocol       |-> [key |-> "protocol", name |-> "Protocol & Soundness Review",
                         base_days |-> FromRatio(10, 1)],
     circuits       |-> [key |-> "circuits", name |-> "Circuits / Crypto Review",
                         base_days |-> FromRatio(12, 1)],
     implementation |-> [key |-> "implementation", name |-> "Implementation Review",
                         base_days |-> FromRatio(14, 1)],
     infra          |-> [key |-> "infra", name |-> "Infrastructure & DevOps Review",
                         base_days |-> FromRatio(6, 1)],
     governance     |-> [key |-> "governance", name |-> "Governance & Upgradeability Review",
                         base_days |-> FromRatio(4, 1)]]

STYLES ==
    [aztec     |-> [key |-> "aztec", name |-> "Aztec-style privacy rollup",
                    protocol_multiplier |-> F1_2,
                    circuits_multiplier |-> F1_5,
                    impl_multiplier     |-> F1_15,
                    infra_multiplier    |-> F1_1,
                    gov_multiplier      |-> F1_0],
     zama      |-> [key |-> "zama", name |-> "Zama-style FHE compute stack",
                    protocol_multiplier |-> F1_15,
                    circuits_multiplier |-> F1_6,
                    impl_multiplier     |-> F1_1,
                    infra_multiplier    |-> F1_15,
                    gov_multiplier      |-> F1_0],
     soundness |-> [key |-> "soundness", name |-> "Soundness-first research lab",
                    protocol_multiplier |-> F1_4,
                    circuits_multiplier |-> F1_2,
                    impl_multiplier     |-> F1_1,
                    infra_multiplier    |-> F1_0,
                    gov_multiplier      |-> F1_1]]

StyleKeys == {"aztec", "zama", "soundness"}

(***************************************************************************)
(* compute_audit_plan, stage by stage.                                     *)
(***************************************************************************)
\* the style multiplier of a track
StyleMultiplier(style, key) ==
    CASE key = "protocol"       -> style.protocol_multiplier
      [] key = "circuits"       -> style.circuits_multiplier
      [] key = "implementation" -> style.impl_multiplier
      [] key = "infra"          -> style.infra_multiplier
      [] key = "governance"     -> style.gov_multiplier
      [] OTHER                  -> F1_0

\* track.base_days * mult
StyleDay(style, key) == FMul(TRACKS[key].base_days, StyleMultiplier(style, key))

\* base_days after the first loop
StyleDays(style) ==
    [protocol |-> StyleDay(style, "protocol"), circuits |-> StyleDay(style, "circuits"),
     implementation |-> StyleDay(style, "implementation"), infra |-> StyleDay(style, "infra"),
     governance |-> StyleDay(style, "governance")]

\* base_days[key] *= f
Times(bd, key, f) == [bd EXCEPT ![key] = FMul(@, f)]

\* fhe forgets circuits, so that zk and fhe do not compound
AdjustFheInfraOnly(feature, bd) ==
    CASE feature = "zk"          -> Times(bd, "circuits", F1_25)
      [] feature = "fhe"         -> Times(bd, "infra", F1_15)
      [] feature = "bridge"      -> Times(Times(bd, "protocol", F1_20), "implementation", F1_15)
      [] feature = "multi_chain" -> Times(Times(bd, "infra", F1_20), "protocol", F1_10)
      [] feature = "governance"  -> Times(bd, "governance", F1_5)

\* multi_chain adds 1.20 to infra (+= for *=)
AdjustAddsInfra(feature, bd) ==
    CASE feature = "zk"          -> Times(bd, "circuits", F1_25)
      [] feature = "fhe"         -> Times(Times(bd, "circuits", F1_25), "infra", F1_15)
      [] feature = "bridge"      -> Times(Times(bd, "protocol", F1_20), "implementation", F1_15)
      [] feature = "multi_chain" -> Times([bd EXCEPT !["infra"] = FAdd(@, F1_20)], "protocol", F1_10)
      [] feature = "governance"  -> Times(bd, "governance", F1_5)

\* bridge scales infra where it should scale implementation
AdjustBridgeInfra(feature, bd) ==
    CASE feature = "zk"          -> Times(bd, "circuits", F1_25)
      [] feature = "fhe"         -> Times(Times(bd, "circuits", F1_25), "infra", F1_15)
      [] feature = "bridge"      -> Times(Times(bd, "protocol", F1_20), "infra", F1_15)
      [] feature = "multi_chain" -> Times(Times(bd, "infra", F1_20), "protocol", F1_10)
      [] feature = "governance"  -> Times(bd, "governance", F1_5)

\* one feature-based adjustment
Adjust(feature, bd) ==
    CASE feature = "zk"          -> Times(bd, "circuits", F1_25)
      [] feature = "fhe"         -> Times(Times(bd, "circuits", F1_25), "infra", F1_15)
      [] feature = "bridge"      -> Times(Times(bd, "protocol", F1_20), "implementation", F1_15)
      [] feature = "multi_chain" -> Times(Times(bd, "infra", F1_20), "protocol", F1_10)
      [] feature = "governance"  -> Times(bd, "governance", F1_5)

RECURSIVE ApplyFeatures(_, _, _)
\* the adjustments of the enabled features, in the order of the sequence
ApplyFeatures(order, enabled, bd) ==
    IF order = <<>> THEN bd
    ELSE ApplyFeatures(Tail(order), enabled,
                       IF Head(order) \in enabled THEN Adjust(Head(order), bd) ELSE bd)

\* the order of the if statements
FeatureOrder == <<"zk", "fhe", "bridge", "multi_chain", "governance">>

Enabled(uses_zk, uses_fhe, has_bridge, has_governance, multi_chain) ==
    (IF uses_zk THEN {"zk"} ELSE {})
    \cup (IF uses_fhe THEN {"fhe"} ELSE {})
    \cup (IF has_bridge THEN {"bridge"} ELSE {})
    \cup (IF multi_chain THEN {"multi_chain"} ELSE {})
    \cup (IF has_governance THEN {"governance"} ELSE {})

\* base_days after the feature-based adjustments
FeatureDays(bd, enabled) == ApplyFeatures(FeatureOrder, enabled, bd)

\* the factors of idea and mainnet exchanged
MaturityFactorSwapped(maturity) ==
    CASE maturity = "idea"      -> F1_2
      [] maturity = "prototype" -> F1_0
      [] maturity = "mainnet"   -> F0_7
      [] OTHER                  -> F1_0

\* maturity_factors.get(maturity, 1.0)
MaturityFactor(maturity) ==
    CASE maturity = "idea"      -> F0_7
      [] maturity = "prototype" -> F1_0
      [] maturity = "mainnet"   -> F1_2
      [] OTHER                  -> F1_0

\* < for <= at the first threshold
TeamFactorStrict(team_size) ==
    IF team_size < 3 THEN F0_9
    ELSE IF team_size <= 8 THEN F1_0
    ELSE F1_1

TeamFactor(team_size) ==
    IF team_size <= 3 THEN F0_9
    ELSE IF team_size <= 8 THEN F1_0
    ELSE F1_1

\* for k in base_days: base_days[k] *= factor
Scale(bd, factor) ==
    [protocol |-> FMul(bd.protocol, factor), circuits |-> FMul(bd.circuits, factor),
     implementation |-> FMul(bd.implementation, factor), infra |-> FMul(bd.infra, factor),
     governance |-> FMul(bd.governance, factor)]

\* days = round(base_days[key], 1), per key
RoundDays(bd) ==
    [protocol |-> Round1(bd.protocol), circuits |-> Round1(bd.circuits),
     implementation |-> Round1(bd.implementation), infra |-> Round1(bd.infra),
     governance |-> Round1(bd.governance)]

RECURSIVE SumDays(_, _, _)
\* total_days after the tracks 1..i of the round-and-build loop
SumDays(days, keys, i) ==
    IF i = 0 THEN FZero
    ELSE FAdd(SumDays(days, keys, i - 1), days[keys[i]])

\* total_days when the loop over TRACKS.items() ends
TotalDays(days) == SumDays(days, TrackKeys, Len(TrackKeys))

RECURSIVE BuildFrom(_, _)
BuildFrom(days, i) ==
    IF i > Len(TrackKeys) THEN <<>>
    ELSE <<[key |-> TrackKeys[i], name |-> TRACKS[TrackKeys[i]].name,
            estimatedDays |-> days[TrackKeys[i]]]>> \o BuildFrom(days, i + 1)

\* the loop misses the first track
BuildTracksSkipFirst(days) == BuildFrom(days, 2)

\* tracks_out before the sort
BuildTracks(days) == BuildFrom(days, 1)

\* t goes before the elements equal to it: an unstable descending sort
InsertDescUnstable(sorted, t) ==
    LET n == Cardinality({i \in 1..Len(sorted) :
                            FLess(t.estimatedDays, sorted[i].estimatedDays)})
    IN SubSeq(sorted, 1, n) \o <<t>> \o SubSeq(sorted, n + 1, Len(sorted))

\* t goes behind every element that is not smaller: equal elements keep
\* their order, as list.sort(reverse=True) guarantees
InsertDesc(sorted, t) ==
    LET n == Cardinality({i \in 1..Len(sorted) :
                            ~FLess(sorted[i].estimatedDays, t.estimatedDays)})
    IN SubSeq(sorted, 1, n) \o <<t>> \o SubSeq(sorted, n + 1, Len(sorted))

RECURSIVE SortDescFrom(_, _, _)
SortDescFrom(ts, i, acc) ==
    IF i > Len(ts) THEN acc
    ELSE SortDescFrom(ts, i + 1, InsertDesc(acc, ts[i]))

\* tracks_out.sort(key=estimatedDays, reverse=True)
SortTracks(ts) == SortDescFrom(ts, 1, <<>>)

key_order == <<"protocol", "circuits", "implementation", "infra", "governance">>

\* the keys in the order of the sorted tracks
SuggestedOrderSorted(tracks_out) == [i \in 1..Len(tracks_out) |-> tracks_out[i].key]

SuggestedOrder(tracks_out) ==
    LET Present(k) == \E i \in 1..Len(tracks_out) : tracks_out[i].key = k
    IN SelectSeq(key_order, Present)

\* the locals of compute_audit_plan when it returns, stage by stage: each
\* operator takes the locals set so far and adds the next ones
LocalsSorted(l, tracks_out) ==
    [style_days |-> l.style_days, feature_days |-> l.feature_days,
     m_factor |-> l.m_factor, maturity_days |-> l.maturity_days,
     team_factor |-> l.team_factor, base_days |-> l.base_days,
     total_days |-> l.total_days, tracks_out |-> tracks_out,
     suggested_order |-> SuggestedOrder(tracks_out)]

\* total_days sums the unrounded days
LocalsRoundedSumFirst(l, days) ==
    LocalsSorted([style_days |-> l.style_days, feature_days |-> l.feature_days,
                  m_factor |-> l.m_factor, maturity_days |-> l.maturity_days,
                  team_factor |-> l.team_factor, base_days |-> l.base_days,
                  total_days |-> TotalDays(l.base_days)],
                 SortTracks(BuildTracks(days)))

LocalsRounded(l, days) ==
    LocalsSorted([style_days |-> l.style_days, feature_days |-> l.feature_days,
                  m_factor |-> l.m_factor, maturity_days |-> l.maturity_days,
                  team_factor |-> l.team_factor, base_days |-> l.base_days,
                  total_days |-> TotalDays(days)],
                 SortTracks(BuildTracks(days)))

LocalsTeam(l, team_factor) ==
    LocalsRounded([style_days |-> l.style_days, feature_days |-> l.feature_days,
                   m_factor |-> l.m_factor, maturity_days |-> l.maturity_days,
                   team_factor |-> team_factor,
                   base_days |-> Scale(l.maturity_days, team_factor)],
                  RoundDays(Scale(l.maturity_days, team_factor)))

LocalsMaturity(l, m_factor, team_size) ==
    LocalsTeam([style_days |-> l.style_days, feature_days |-> l.feature_days,
                m_factor |-> m_factor,
                maturity_days |-> Scale(l.feature_days, m_factor)],
               TeamFactor(team_size))

LocalsFeatures(style_days, enabled, maturity, team_size) ==
    LocalsMaturity([style_days |-> style_days,
                    feature_days |-> FeatureDays(style_days, enabled)],
                   MaturityFactor(maturity), team_size)

PlanLocals(style, uses_zk, uses_fhe, has_bridge, has_governance, multi_chain, team_size, maturity) ==
    LocalsFeatures(StyleDays(style),
                   Enabled(uses_zk, uses_fhe, has_bridge, has_governance, multi_chain),
                   maturity, team_size)

\* the dict compute_audit_plan returns
PlanDict(l, style, uses_zk, uses_fhe, has_bridge, has_governance, multi_chain, team_size, maturity) ==
    [style |-> style.key, styleName |-> style.name,
     usesZk |-> uses_zk, usesFhe |-> uses_fhe, hasBridge |-> has_bridge,
     hasGovernance |-> has_governance, multiChain |-> multi_chain,
     teamSize |-> team_size, maturity |-> maturity,
     tracks |-> l.tracks_out,
     totalEstimatedDays |-> Round1(l.total_days),
     suggestedOrder |-> l.suggested_order]

(***************************************************************************)
(* The command line.                                                       *)
(***************************************************************************)
Digits == {"0", "1", "2", "3", "4", "5", "6", "7", "8", "9"}

DigitValue(c) == CHOOSE d \in 0..9 : <<"0", "1", "2", "3", "4", "5", "6", "7", "8", "9">>[d + 1] = c

\* the characters after an optional sign
Unsigned(tok) == IF tok # <<>> /\ Head(tok) \in {"-", "+"} THEN Tail(tok) ELSE tok

\* int(tok) succeeds (sign and decimal digits; blanks and underscores are
\* not among the tokens of the model)
IsInt(tok) ==
    /\ Unsigned(tok) # <<>>
    /\ \A i \in 1..Len(Unsigned(tok)) : Unsigned(tok)[i] \in Digits

RECURSIVE DigitsValue(_)
DigitsValue(ds) ==
    IF ds = <<>> THEN 0
    ELSE 10 * DigitsValue(SubSeq(ds, 1, Len(ds) - 1)) + DigitValue(ds[Len(ds)])

\* int(tok)
IntOf(tok) ==
    IF tok # <<>> /\ Head(tok) = "-" THEN 0 - DigitsValue(Unsigned(tok))
    ELSE DigitsValue(Unsigned(tok))

StyleChoices == {"aztec", "zama", "soundness"}

MaturityChoices == {"idea", "prototype", "mainnet"}

\* the values --style, --maturity and --team-size are given on the command
\* lines of the model; <<>> is an option that is not given
StyleTokens == {<<>>, <<"aztec">>, <<"zama">>, <<"soundness">>, <<"foo">>}

MaturityTokens == {<<>>, <<"idea">>, <<"prototype">>, <<"mainnet">>, <<"bogus">>}

TeamSizeTokens ==
    {<<>>, <<<<"2">>>>, <<<<"1", "2">>>>, <<<<"-", "1">>>>, <<<<"a", "b", "c">>>>,
     <<<<"2", ".", "5">>>>}

\* --maturity without choices
ArgsOkAnyMaturity(av) ==
    /\ IF av.style = <<>> THEN TRUE ELSE av.style[1] \in StyleChoices
    /\ IF av.team_size = <<>> THEN TRUE ELSE IsInt(av.team_size[1])

\* argparse accepts the command line
ArgsOk(av) ==
    /\ IF av.style = <<>> THEN TRUE ELSE av.style[1] \in StyleChoices
    /\ IF av.team_size = <<>> THEN TRUE ELSE IsInt(av.team_size[1])
    /\ IF av.maturity = <<>> THEN TRUE ELSE av.maturity[1] \in MaturityChoices

\* the Namespace parse_args returns
Namespace(av) ==
    [style       |-> IF av.style = <<>> THEN "aztec" ELSE av.style[1],
     zk          |-> av.zk,
     fhe         |-> av.fhe,
     bridge      |-> av.bridge,
     governance  |-> av.governance,
     multi_chain |-> av.multi_chain,
     team_size   |-> IF av.team_size = <<>> THEN 5 ELSE IntOf(av.team_size[1]),
     maturity    |-> IF av.maturity = <<>> THEN "prototype" ELSE av.maturity[1],
     json        |-> av.json]

\* a float printed with one decimal: <<integer part, tenths>>
Format1(x) == LET K == IF IsZeroW(x.m) THEN 0 ELSE Tenths(x) IN <<K \div 10, K % 10>>

(***************************************************************************)
(* The run.                                                                *)
(***************************************************************************)
VARIABLES
    pc,         \* "start", "parsed", "computed", "done" or "exit"
    argv,       \* the command line, <<>> when compute_audit_plan is called directly
    args,       \* <<the Namespace / the arguments of compute_audit_plan>>, or <<>>
    local,      \* <<the locals of compute_audit_plan at its return>>, or <<>>
    plan,       \* <<the dict compute_audit_plan returned>>, or <<>>
    stdout,     \* what was printed
    stderr,
    exit_code   \* -1 while the process runs

vars == <<pc, argv, args, local, plan, stdout, stderr, exit_code>>

CommandLines ==
    [style : StyleTokens, zk : BOOLEAN, fhe : BOOLEAN, bridge : BOOLEAN,
     governance : BOOLEAN, multi_chain : BOOLEAN, team_size : TeamSizeTokens,
     maturity : MaturityTokens, json : BOOLEAN]

Init ==
    /\ pc = "start"
    /\ argv \in {<<av>> : av \in CommandLines}
    /\ args = <<>>
    /\ local = <<>>
    /\ plan = <<>>
    /\ stdout = <<>>
    /\ stderr = <<>>
    /\ exit_code = -1

\* parse_args returns
ParseOk ==
    /\ pc = "start"
    /\ ArgsOk(argv[1])
    /\ args' = <<Namespace(argv[1])>>
    /\ pc' = "parsed"
    /\ UNCHANGED <<argv, local, plan, stdout, stderr, exit_code>>

\* parser.error: usage on stderr, exit status 2
ParseError ==
    /\ pc = "start"
    /\ ~ArgsOk(argv[1])
    /\ stderr' = <<"usage">>
    /\ exit_code' = 2
    /\ pc' = "exit"
    /\ UNCHANGED <<argv, args, local, plan, stdout>>

\* style = STYLES[args.style]; plan = compute_audit_plan(...)
Compute ==
    /\ pc = "parsed"
    /\ \E l \in {PlanLocals(STYLES[args[1].style], args[1].zk, args[1].fhe, args[1].bridge,
                           args[1].governance, args[1].multi_chain, args[1].team_size,
                           args[1].maturity)} :
          /\ local' = <<l>>
          /\ plan' = <<PlanDict(l, STYLES[args[1].style], args[1].zk, args[1].fhe,
                                args[1].bridge, args[1].governance, args[1].multi_chain,
                                args[1].team_size, args[1].maturity)>>
    /\ pc' = "computed"
    /\ UNCHANGED <<argv, args, stdout, stderr, exit_code>>

\* print(json.dumps(plan, indent=2, sort_keys=True))
PrintJson ==
    /\ pc = "computed"
    /\ args[1].json
    /\ stdout' = <<[mode |-> "json",
                    total |-> Format1(plan[1].totalEstimatedDays),
                    tracks |-> [i \in 1..Len(plan[1].tracks) |->
                                  <<plan[1].tracks[i].key,
                                    Format1(plan[1].tracks[i].estimatedDays)>>],
                    order |-> plan[1].suggestedOrder]>>
    /\ exit_code' = 0
    /\ pc' = "done"
    /\ UNCHANGED <<argv, args, local, plan, stderr>>

\* print_human(plan)
PrintHuman ==
    /\ pc = "computed"
    /\ ~args[1].json
    /\ stdout' = <<[mode |-> "human",
                    total |-> Format1(plan[1].totalEstimatedDays),
                    tracks |-> [i \in 1..Len(plan[1].tracks) |->
                                  <<plan[1].tracks[i].key,
                                    Format1(plan[1].tracks[i].estimatedDays)>>],
                    order |-> [i \in 1..Len(plan[1].suggestedOrder) |->
                                 (CHOOSE j \in 1..Len(plan[1].tracks) :
                                    plan[1].tracks[j].key = plan[1].suggestedOrder[i])]]>>
    /\ exit_code' = 0
    /\ pc' = "done"
    /\ UNCHANGED <<argv, args, local, plan, stderr>>

Next == ParseOk \/ ParseError \/ Compute \/ PrintJson \/ PrintHuman

Spec == Init /\ [][Next]_vars

(***************************************************************************)
(* compute_audit_plan called directly, over every style, every flag        *)
(* combination, the team sizes MinTeamSize..MaxTeamSize and the three      *)
(* maturities plus one string that is none of them.                        *)
(***************************************************************************)
Maturities == {"idea", "prototype", "mainnet", "beta"}

PlanInputs ==
    [style : StyleKeys, zk : BOOLEAN, fhe : BOOLEAN, bridge : BOOLEAN,
     governance : BOOLEAN, multi_chain : BOOLEAN,
     team_size : (0 - NegTeamSizes)..MaxTeamSize, maturity : Maturities, json : {FALSE}]

InitPlan ==
    /\ pc = "parsed"
    /\ argv = <<>>
    /\ args \in {<<a>> : a \in PlanInputs}
    /\ local = <<>>
    /\ plan = <<>>
    /\ stdout = <<>>
    /\ stderr = <<>>
    /\ exit_code = -1

NextPlan == Compute

SpecPlan == InitPlan /\ [][NextPlan]_vars

(***************************************************************************)
(* compute_audit_plan called directly for the claims about the feature     *)
(* flags: every style, every flag combination and every maturity, with one *)
(* team size for each of the three team factors.                           *)
(***************************************************************************)
FlagTeamSizes == {2, 5, 12}

FlagInputs == {a \in [style : StyleKeys, zk : BOOLEAN, fhe : BOOLEAN, bridge : BOOLEAN,
                      governance : BOOLEAN, multi_chain : BOOLEAN,
                      team_size : FlagTeamSizes, maturity : Maturities, json : {FALSE}] :
                 TRUE}

InitFlags ==
    /\ pc = "parsed"
    /\ argv = <<>>
    /\ args \in {<<a>> : a \in FlagInputs}
    /\ local = <<>>
    /\ plan = <<>>
    /\ stdout = <<>>
    /\ stderr = <<>>
    /\ exit_code = -1

NextFlags == Compute

SpecFlags == InitFlags /\ [][NextFlags]_vars

(***************************************************************************)
(* Properties.                                                             *)
(***************************************************************************)
Returned == plan # <<>>

\* estimatedDays of the track with key k
DaysOf(tracks, k) ==
    tracks[CHOOSE i \in 1..Len(tracks) : tracks[i].key = k].estimatedDays

\* x <= y
FLeq(x, y) == ~FLess(y, x)

\* C1: whatever the style, the flags, the team size (zero and negative
\* included) and the maturity, the returned tracks are exactly 5, exactly one
\* per key protocol, circuits, implementation, infra, governance, and every
\* estimatedDays is > 0.
C1_FiveTracksPositive ==
    Returned =>
        /\ Len(plan[1].tracks) = 5
        /\ \A k \in {"protocol", "circuits", "implementation", "infra", "governance"} :
              Cardinality({i \in 1..Len(plan[1].tracks) : plan[1].tracks[i].key = k}) = 1
        /\ \A i \in 1..Len(plan[1].tracks) :
              FLess(FZero, plan[1].tracks[i].estimatedDays)

\* a plan was returned for a team size that is not positive
C1_Witness == Returned /\ args[1].team_size <= 0 /\ args[1].maturity = "idea"

RECURSIVE SumTracks(_, _)
\* the float sum of the estimatedDays of tracks[1..i], in the order of tracks
SumTracks(tracks, i) ==
    IF i = 0 THEN FZero ELSE FAdd(SumTracks(tracks, i - 1), tracks[i].estimatedDays)

RECURSIVE SumKeys(_, _)
\* the float sum of bd over the first i keys
SumKeys(bd, i) ==
    IF i = 0 THEN FZero ELSE FAdd(SumKeys(bd, i - 1), bd[TrackKeys[i]])

\* C2: totalEstimatedDays is the sum of the five estimatedDays as they stand
\* in tracks, each of them already rounded to one decimal, and that sum
\* rounded to one decimal.
C2_TotalIsRoundedSumOfRounded ==
    Returned =>
        /\ \A k \in KeySet : DaysOf(plan[1].tracks, k) = Round1(local[1].base_days[k])
        /\ \A i \in 1..Len(plan[1].tracks) :
              Round1(plan[1].tracks[i].estimatedDays) = plan[1].tracks[i].estimatedDays
        /\ plan[1].totalEstimatedDays
             = Round1(SumTracks(plan[1].tracks, Len(plan[1].tracks)))

\* a plan whose total differs from the rounded sum of the unrounded days
C2_Witness ==
    /\ Returned
    /\ plan[1].totalEstimatedDays # Round1(SumKeys(local[1].base_days, Len(TrackKeys)))

\* C3: tracks is in non-increasing order of estimatedDays, and of two tracks
\* with equal estimatedDays the one earlier in the catalog comes first.
C3_SortedDescendingStable ==
    Returned =>
        \A i \in 1..Len(plan[1].tracks) : \A j \in (i + 1)..Len(plan[1].tracks) :
            /\ FLeq(plan[1].tracks[j].estimatedDays, plan[1].tracks[i].estimatedDays)
            /\ plan[1].tracks[i].estimatedDays = plan[1].tracks[j].estimatedDays
                 => KeyIndex(plan[1].tracks[i].key) < KeyIndex(plan[1].tracks[j].key)

\* a plan with a tie between two tracks that the sort had to move
C3_Witness ==
    /\ Returned
    /\ \E i \in 1..(Len(plan[1].tracks) - 1) :
          plan[1].tracks[i].estimatedDays = plan[1].tracks[i + 1].estimatedDays
    /\ plan[1].tracks[1].key # "protocol"

\* C4: suggestedOrder is protocol, circuits, implementation, infra,
\* governance, whatever the inputs and whatever the order of tracks.
C4_SuggestedOrderFixed ==
    Returned =>
        plan[1].suggestedOrder
          = <<"protocol", "circuits", "implementation", "infra", "governance">>

\* a plan whose tracks are in another order than the suggested one
C4_Witness ==
    /\ Returned
    /\ plan[1].tracks[1].key = "circuits"
    /\ plan[1].tracks[5].key = "infra"

\* the command line gives a style or a maturity outside the choices, or a
\* team size that is no integer
BadCommandLine ==
    /\ argv # <<>>
    /\ \/ argv[1].style \notin {<<>>, <<"aztec">>, <<"zama">>, <<"soundness">>}
       \/ argv[1].maturity \notin {<<>>, <<"idea">>, <<"prototype">>, <<"mainnet">>}
       \/ argv[1].team_size \in {<<<<"a", "b", "c">>>>, <<<<"2", ".", "5">>>>}

\* C5: a run with a bad --style, --maturity or --team-size never calls
\* compute_audit_plan, prints nothing on standard output and exits non-zero;
\* in every run the plan is computed only after the parse and printed only
\* after it is computed, and a run that printed exits 0.
C5_BadArgumentsFailFast ==
    /\ BadCommandLine =>
          /\ pc \in {"start", "exit"}
          /\ args = <<>> /\ local = <<>> /\ plan = <<>> /\ stdout = <<>>
          /\ pc = "exit" => exit_code > 0
    /\ exit_code > 0 => plan = <<>> /\ stdout = <<>>
    /\ plan # <<>> => args # <<>>
    /\ stdout # <<>> => plan # <<>> /\ exit_code = 0
    /\ pc = "done" => stdout # <<>>

\* a run with --maturity bogus has ended
C5_Witness ==
    /\ pc = "exit"
    /\ exit_code = 2
    /\ argv[1].maturity = <<"bogus">>
    /\ argv[1].style \in {<<>>, <<"zama">>}

\* C6: the team factor is 0.9 up to team size 3 (zero and negative sizes
\* too), 1.0 from 4 to 8, 1.1 from 9 on, and this one factor multiplies the
\* days of all five tracks before they are rounded.
C6_TeamFactor ==
    Returned =>
        /\ args[1].team_size <= 3 => local[1].team_factor = FromRatio(9, 10)
        /\ args[1].team_size \in 4..8 => local[1].team_factor = FromRatio(10, 10)
        /\ args[1].team_size >= 9 => local[1].team_factor = FromRatio(11, 10)
        /\ \A k \in KeySet :
              /\ local[1].base_days[k] = FMul(local[1].maturity_days[k], local[1].team_factor)
              /\ DaysOf(plan[1].tracks, k) = Round1(local[1].base_days[k])

\* a plan for team size 3, the last size with factor 0.9
C6_Witness == Returned /\ args[1].team_size = 3 /\ local[1].team_factor = FromRatio(9, 10)

\* the locals of the call with the same arguments but another maturity
WithMaturity(a, maturity) ==
    PlanLocals(STYLES[a.style], a.zk, a.fhe, a.bridge, a.governance, a.multi_chain,
               a.team_size, maturity)

\* under idea every track is the unrounded prototype value times 0.7, rounded
IdeaOfPrototype(tracks, proto) ==
    \A k \in KeySet : DaysOf(tracks, k) = Round1(FMul(proto.base_days[k], FromRatio(7, 10)))

\* the plan has the tracks and the total of the prototype call
SameAsPrototype(proto) ==
    /\ plan[1].tracks = proto.tracks_out
    /\ plan[1].totalEstimatedDays = Round1(proto.total_days)

\* C7: the maturity factor is 0.7 for idea, 1.0 for prototype, 1.2 for
\* mainnet and 1.0 for anything else, and multiplies the days of every track;
\* under idea each estimatedDays is the unrounded prototype value of the
\* track times 0.7, rounded to one decimal; an unknown maturity gives the
\* tracks and the total of prototype.
C7_MaturityFactor ==
    Returned =>
        /\ args[1].maturity = "idea" => local[1].m_factor = FromRatio(7, 10)
        /\ args[1].maturity = "prototype" => local[1].m_factor = FromRatio(10, 10)
        /\ args[1].maturity = "mainnet" => local[1].m_factor = FromRatio(12, 10)
        /\ args[1].maturity \notin {"idea", "prototype", "mainnet"}
             => local[1].m_factor = FromRatio(10, 10)
        /\ \A k \in KeySet :
              local[1].maturity_days[k] = FMul(local[1].feature_days[k], local[1].m_factor)
        /\ args[1].maturity = "idea"
             => IdeaOfPrototype(plan[1].tracks, WithMaturity(args[1], "prototype"))
        /\ args[1].maturity \notin {"idea", "prototype", "mainnet"}
             => SameAsPrototype(WithMaturity(args[1], "prototype"))

\* a plan under idea for a team factor other than 1.0
C7_Witness == Returned /\ args[1].maturity = "idea" /\ args[1].team_size > 8

\* base * style multiplier * feature contribution * maturity factor * team
\* factor for the circuits track, every product rounded to a double
CircuitsProduct(a, contribution) ==
    FMul(FMul(FMul(FMul(FromRatio(12, 1), StyleMultiplier(STYLES[a.style], "circuits")),
                   contribution),
              local[1].m_factor),
         local[1].team_factor)

\* C8 as claimed: with usesZk and usesFhe the circuits days before rounding
\* are base * style multiplier * 1.5625 * maturity factor * team factor, and
\* with one of the two flags the contribution is 1.25.
C8_Claimed ==
    Returned =>
        /\ args[1].zk /\ args[1].fhe
             => local[1].base_days.circuits
                  = CircuitsProduct(args[1], FromRatio(15625, 10000))
        /\ args[1].zk # args[1].fhe
             => local[1].base_days.circuits
                  = CircuitsProduct(args[1], FromRatio(125, 100))

\* C8: with usesZk and usesFhe the circuits days are multiplied by 1.25
\* twice, each product rounded to a double, and then by the maturity and the
\* team factor; for the styles aztec and zama that is the product with the
\* single contribution 1.5625 (for soundness it is not); with one of the two
\* flags the contribution is 1.25, with none the days are not touched.
C8_CircuitsCompound ==
    Returned =>
        /\ args[1].zk /\ args[1].fhe
             => /\ local[1].feature_days.circuits
                     = FMul(FMul(local[1].style_days.circuits, FromRatio(125, 100)),
                            FromRatio(125, 100))
                /\ args[1].style \in {"aztec", "zama"}
                     => local[1].base_days.circuits
                          = CircuitsProduct(args[1], FromRatio(15625, 10000))
        /\ args[1].zk # args[1].fhe
             => /\ local[1].feature_days.circuits
                     = FMul(local[1].style_days.circuits, FromRatio(125, 100))
                /\ local[1].base_days.circuits
                     = CircuitsProduct(args[1], FromRatio(125, 100))
        /\ ~args[1].zk /\ ~args[1].fhe
             => local[1].feature_days.circuits = local[1].style_days.circuits
        /\ local[1].base_days.circuits
             = FMul(FMul(local[1].feature_days.circuits, local[1].m_factor),
                    local[1].team_factor)

\* a plan with both flags whose circuits track is printed with another value
\* than the single contribution 1.5625 gives
C8_Witness ==
    /\ Returned
    /\ args[1].zk /\ args[1].fhe
    /\ DaysOf(plan[1].tracks, "circuits")
         # Round1(CircuitsProduct(args[1], FromRatio(15625, 10000)))

Features == {"zk", "fhe", "bridge", "multi_chain", "governance"}

\* the orders in which the features of a set can be applied
Orders == [S \in SUBSET Features |->
             {p \in [1..Cardinality(S) -> S] :
                 \A i, j \in 1..Cardinality(S) : i # j => p[i] # p[j]}]

EnabledOf(a) == Enabled(a.zk, a.fhe, a.bridge, a.governance, a.multi_chain)

\* C9 as claimed: the enabled adjustments applied in any order give the
\* per-track days the order of the code gives.
C9_Claimed ==
    Returned =>
        \A p \in Orders[EnabledOf(args[1])] :
            ApplyFeatures(p, EnabledOf(args[1]), local[1].style_days)
              = local[1].feature_days

\* the track k of the days d, scaled and rounded as the code does
Rounded(d, k) == Round1(FMul(FMul(d[k], local[1].m_factor), local[1].team_factor))

\* d: the days before rounding that some order of the adjustments gives
SameDays(d) ==
    \A k \in KeySet :
        \/ d[k] = local[1].feature_days[k]
        \/ /\ k = "protocol"
           /\ args[1].style = "soundness"
           /\ args[1].bridge /\ args[1].multi_chain
           /\ Rounded(d, k) = DaysOf(plan[1].tracks, k)

\* C9: the enabled adjustments applied in any order give the estimatedDays
\* the order of the code gives, for every track; the days before rounding
\* are the same too, except those of protocol under the style soundness when
\* bridge and multi-chain are both enabled.
C9_OrderIndependentRounded ==
    Returned =>
        \A p \in Orders[EnabledOf(args[1])] :
            SameDays(ApplyFeatures(p, EnabledOf(args[1]), local[1].style_days))

\* a plan with bridge and multi-chain where the other order of the two gives
\* other protocol days before rounding
C9_Witness ==
    /\ Returned
    /\ args[1].bridge /\ args[1].multi_chain /\ args[1].fhe
    /\ ApplyFeatures(<<"multi_chain", "bridge", "fhe">>, {"multi_chain", "bridge", "fhe"},
                     local[1].style_days).protocol
         # local[1].feature_days.protocol

\* the tracks a flag is claimed to change
Targets ==
    [zk |-> {"circuits"}, fhe |-> {"circuits", "infra"},
     bridge |-> {"protocol", "implementation"}, multi_chain |-> {"protocol", "infra"},
     governance |-> {"governance"}]

\* the locals of the call with the same arguments but the flag f off
WithoutFlag(a, f) ==
    PlanLocals(STYLES[a.style], a.zk /\ f # "zk", a.fhe /\ f # "fhe",
               a.bridge /\ f # "bridge", a.governance /\ f # "governance",
               a.multi_chain /\ f # "multi_chain", a.team_size, a.maturity)

\* off: the locals with one flag off that is on in the plan
FlagFrame(f, off) ==
    /\ \A k \in KeySet \ Targets[f] :
          DaysOf(off.tracks_out, k) = DaysOf(plan[1].tracks, k)
    /\ \A k \in KeySet :
          FLeq(DaysOf(off.tracks_out, k), DaysOf(plan[1].tracks, k))
    /\ FLeq(Round1(off.total_days), plan[1].totalEstimatedDays)

\* C10: a flag changes the estimatedDays of its target tracks only (zk:
\* circuits; fhe: circuits, infra; bridge: protocol, implementation;
\* multi-chain: protocol, infra; governance: governance), and turning a flag
\* on decreases no estimatedDays and not the total.
C10_FlagFrame ==
    Returned =>
        \A f \in EnabledOf(args[1]) : FlagFrame(f, WithoutFlag(args[1], f))

\* a plan with fhe and multi-chain on, both of which scale infra
C10_Witness ==
    /\ Returned
    /\ args[1].fhe /\ args[1].multi_chain
    /\ FLess(DaysOf(WithoutFlag(args[1], "fhe").tracks_out, "infra"),
             DaysOf(plan[1].tracks, "infra"))
====
